---- MODULE Spec2Model ----
(***************************************************************************)
(* A model of file_monitor.py: the status/rerun engine                     *)
(* (get_status_and_update_info), the state store (load_state, save_state), *)
(* the snapshot table (df, write_sorted_csv) and the poll loop             *)
(* (monitor_forever) with its ThreadPoolExecutor.                          *)
(*                                                                         *)
(* Times are whole seconds of time.time(); a file's st_mtime is counted in *)
(* units of 1/Res second, so that split_ts/to_unix (which keep whole       *)
(* seconds only) are not the identity.  Strings that the code takes apart  *)
(* (file names, keys) are sequences of tokens.  created_*, user are        *)
(* carried by no decision of the code and are left out of the rows.        *)
(* What the monitor reads from outside (the directory listing, os.stat,    *)
(* db_exists, time.time) is an input of the step that reads it.            *)
(***************************************************************************)
EXTENDS Integers, Sequences, FiniteSets, TLC

\* ---------------------------------------------------------------- bounds
Res == 2          \* st_mtime units per second
MaxMtime == 2     \* st_mtime ranges over 0..MaxMtime (units of 1/Res s)
MaxRerun == 1     \* pass 1 is not taken once it would push rerun past this
MaxLate == 1      \* time.time() is 0 or STALL+1..STALL+MaxLate

\* ------------------------------------------------------ program constants
None == -1                 \* Python's None in a numeric field (all real values are >= 0)
max_workers == 4           \* ThreadPoolExecutor(max_workers=4)
STALL == 15 * 60           \* age <= 15 * 60
DAY == 24 * 60 * 60        \* seconds in the date part of a (date, time) pair
SEP == "::"                \* the separator of make_key
NoStatus == "none"         \* info.get("last_status") of a record without one

Sizes == {1, 2}            \* st_size values
TimePoints == {0} \cup ((STALL + 1)..(STALL + MaxLate))
\* what os.stat may return for a listed file
StatResults == [st_mtime : 0..MaxMtime, st_size : Sizes]

\* File names, as the sequence of their "."-separated parts; a part is a
\* sequence of tokens (a token holds neither "." nor "::").
F1 == << <<"a">>, <<"s">>, <<"log">> >>            \* a.s.log
F2 == << <<"a">>, <<"s">>, <<"x">>, <<"log">> >>   \* a.s.x.log  (same job, stage as F1)
Files == {F1, F2}
F3 == << <<"b">>, <<"s">>, <<"log">> >>            \* b.s.log  (another job)
F4 == << <<"a">>, <<"x">>, <<"log">> >>            \* a.x.log  (another stage)
F5 == << <<"b">>, <<"x">>, <<"log">> >>            \* b.x.log
F6 == << <<"x">>, <<"s">>, <<"log">> >>            \* x.s.log
F7 == << <<"a", "::", "b">>, <<"s">>, <<"log">> >>  \* a::b.s.log  (the job holds the separator)

\* ---------------------------------------------------------- time helpers

\* split_ts: epoch (here in 1/Res s) -> (date, time), whole seconds only
split_ts(epoch) ==
    LET secs == epoch \div Res
    IN  [date |-> secs \div DAY, time |-> secs % DAY]

\* to_unix: (date, time) -> epoch seconds
to_unix(date_str, time_str) == date_str * DAY + time_str

\* --------------------------------------------------- domain specific stubs

\* parse_job_stage: the first two "."-separated parts of the base name
parse_job_stage(file_path) ==
    [job   |-> IF Len(file_path) > 0 THEN file_path[1] ELSE <<"job_unknown">>,
     stage |-> IF Len(file_path) > 1 THEN file_path[2] ELSE <<"stage0">>]

\* get_data_record: os.stat + parse_job_stage + split_ts
get_data_record(file_path, st) ==
    LET js == parse_job_stage(file_path)
        m  == split_ts(st.st_mtime)
    IN  [job |-> js.job, stage |-> js.stage,
         modified_date |-> m.date, modified_time |-> m.time,
         size |-> st.st_size]

\* ------------------------------------------------- state and CSV helpers

\* make_key: f"{job}::{stage}"
make_key(job, stage) == job \o <<SEP>> \o stage

\* key.split("::", 1): cut at the first separator
FirstSep(key) == CHOOSE i \in 1..Len(key) : key[i] = SEP /\ \A j \in 1..(i-1) : key[j] # SEP
split_key(key) ==
    [job   |-> SubSeq(key, 1, FirstSep(key) - 1),
     stage |-> SubSeq(key, FirstSep(key) + 1, Len(key))]

\* lines 233-235: the key of a file
KeyOf(file_path) == make_key(parse_job_stage(file_path).job, parse_job_stage(file_path).stage)

\* lines 91, 162: the modified time the engine sees for a stat result
ModifiedUnix(st) == to_unix(split_ts(st.st_mtime).date, split_ts(st.st_mtime).time)

\* {} : a record with no field set (rerun reads as 0 through info.get("rerun", 0))
EmptyInfo ==
    [last_seen_mtime |-> None, last_seen_size |-> None, last_change_time |-> None,
     last_extracted_mtime |-> None, last_status |-> NoStatus, rerun |-> 0]

\* state.get(key, {})
StateGet(state, key) == IF key \in DOMAIN state THEN state[key] ELSE EmptyInfo

\* state[key] = info
StatePut(state, key, info) ==
    [k \in (DOMAIN state) \cup {key} |-> IF k = key THEN info ELSE state[k]]

\* -------------------------------------------------- status and rerun logic

\* a faulty variant of ChangeTime: a change of size alone is not a change
ChangeTimeMtimeOnly(info, modified_unix, size, now_unix) ==
    IF \/ info.last_seen_mtime = None
       \/ modified_unix # info.last_seen_mtime
    THEN now_unix ELSE info.last_change_time

\* lines 172-174: track when file content last changed
ChangeTime(info, modified_unix, size, now_unix) ==
    IF \/ info.last_seen_mtime = None
       \/ modified_unix # info.last_seen_mtime
       \/ size # info.last_seen_size
    THEN now_unix ELSE info.last_change_time

\* a faulty variant of StallStatus: the stall bound itself already counts as stalled
StallStatusStrict(now_unix, last_change_time) ==
    LET age == now_unix - (IF last_change_time # None THEN last_change_time ELSE now_unix)
    IN  IF age < STALL THEN "file running" ELSE "file failed"

\* lines 196-197: no DB record; the file is running or has stalled
StallStatus(now_unix, last_change_time) ==
    LET age == now_unix - (IF last_change_time # None THEN last_change_time ELSE now_unix)
    IN  IF age <= STALL THEN "file running" ELSE "file failed"

\* a faulty variant of EngineStatus: the DB answer is looked at before is_extracting
EngineStatusDbFirst(info, modified_unix, now_unix, last_change_time, is_extracting, exists) ==
    IF exists
    THEN IF info.last_extracted_mtime = None \/ modified_unix > info.last_extracted_mtime
         THEN "await extraction" ELSE "complete"
    ELSE IF is_extracting THEN "extracting"
    ELSE StallStatus(now_unix, last_change_time)

\* a faulty variant of EngineStatus: a record never extracted awaits extraction,
\* whether or not there is a DB record
EngineStatusNeverFirst(info, modified_unix, now_unix, last_change_time, is_extracting, exists) ==
    IF is_extracting THEN "extracting"
    ELSE IF info.last_extracted_mtime = None THEN "await extraction"
    ELSE IF exists
         THEN IF modified_unix > info.last_extracted_mtime
              THEN "await extraction" ELSE "complete"
         ELSE StallStatus(now_unix, last_change_time)

\* lines 178-197: the status
EngineStatus(info, modified_unix, now_unix, last_change_time, is_extracting, exists) ==
    LET never_extracted == info.last_extracted_mtime = None
        changed_after_extract ==
            info.last_extracted_mtime # None /\ modified_unix > info.last_extracted_mtime
    IN  IF is_extracting THEN "extracting"
        ELSE IF exists
             THEN IF never_extracted THEN "await extraction"
                  ELSE IF changed_after_extract THEN "await extraction"
                  ELSE "complete"
             ELSE StallStatus(now_unix, last_change_time)

\* a faulty variant of EngineRerun: last_status == "complete" is not asked for
EngineRerunAnyStatus(info, modified_unix, is_extracting, exists) ==
    IF /\ ~is_extracting
       /\ exists
       /\ info.last_extracted_mtime # None
       /\ modified_unix > info.last_extracted_mtime
    THEN info.rerun + 1 ELSE info.rerun

\* lines 170, 178-191: rerun += 1 when a complete file is found modified
EngineRerun(info, modified_unix, is_extracting, exists) ==
    IF /\ ~is_extracting
       /\ exists
       /\ info.last_extracted_mtime # None
       /\ modified_unix > info.last_extracted_mtime
       /\ info.last_status = "complete"
    THEN info.rerun + 1 ELSE info.rerun

\* get_status_and_update_info: returns the status and the updated info
\* (exists is what db_exists(job, stage) answers at line 176)
get_status_and_update_info(job, stage, rec, info, now_unix, is_extracting, exists) ==
    LET modified_unix == to_unix(rec.modified_date, rec.modified_time)
        size == rec.size
        last_change_time == ChangeTime(info, modified_unix, size, now_unix)
        status == EngineStatus(info, modified_unix, now_unix, last_change_time,
                               is_extracting, exists)
        rerun == EngineRerun(info, modified_unix, is_extracting, exists)
    IN  [status |-> status,
         info   |-> [info EXCEPT !.last_seen_mtime = modified_unix,
                                 !.last_seen_size = size,
                                 !.last_change_time = last_change_time,
                                 !.rerun = rerun]]

\* ------------------------------------------------------------------ state
VARIABLES
    clock,   \* the last value read from time.time(), whole seconds
    mon,     \* the monitor process: the locals of monitor_forever and its pool
    disk,    \* the files the monitor writes: state_path, its .tmp, csv_path
    env,     \* what the outside may answer: the listing, os.stat, db_exists, the
             \* clock, how data_extraction ends, the files it never ends on
    hist,    \* history of the current loop iteration (read by no step)
    eng,     \* a call of get_status_and_update_info on its own, and a second one
    twin     \* the same process had it not been killed, kept beside the restarted one

vars == <<clock, mon, disk, env, hist, eng, twin>>

Statuses == {"await extraction", "file running", "extracting", "file failed", "complete"}
Done(fut) == fut.st \in {"ok", "failed"}            \* fut.done()

\* all orders in which glob may list the set S
RECURSIVE Perms(_)
Perms(S) ==
    IF S = {} THEN {<<>>}
    ELSE UNION {{<<x>> \o p : p \in Perms(S \ {x})} : x \in S}

\* a file on disk: absent, or holding data that is complete or cut short
NoFile == [exists |-> FALSE, data |-> <<>>, complete |-> FALSE]
WholeFile(data) == [exists |-> TRUE, data |-> data, complete |-> TRUE]
PartFile(data) == [exists |-> TRUE, data |-> data, complete |-> FALSE]

\* a faulty variant of load_state: the saved mapping is not read
load_state_forgets(d) == <<>>

\* load_state: json.load of state_path, {} on any error
load_state(d) ==
    IF d.state_path.exists /\ d.state_path.complete THEN d.state_path.data ELSE <<>>

\* monitor_forever, lines 217-221: the locals before the loop
MonInit(d) ==
    [pc |-> "start",
     state |-> load_state(d),
     df |-> <<>>,
     future_to_key |-> <<>>,
     now_unix |-> 0,
     files |-> <<>>,
     dirty_csv |-> FALSE,
     new_keys |-> 0,
     seen_keys |-> {}]

\* main() with --reset, or a first start: no state file, no CSV
DiskInit ==
    [state_path |-> NoFile, state_tmp |-> NoFile, csv_path |-> NoFile, csv_tmp |-> NoFile]

\* hist.changed: a pass 1 step of this iteration recorded a new identity, or a
\* status, rerun or modified time other than the one the record held;
\* hist.drained: pass 2 of this iteration folded a future whose row is in df;
\* hist.exported: this iteration called write_sorted_csv
HistInit == [changed |-> FALSE, drained |-> FALSE, exported |-> FALSE]

\* no call under way
EngIdle ==
    [phase |-> "idle", file |-> F1, st |-> [st_mtime |-> 0, st_size |-> 1],
     info |-> EmptyInfo, now_unix |-> 0, is_extracting |-> FALSE, exists |-> FALSE,
     r1 |-> [status |-> NoStatus, info |-> EmptyInfo],
     r2 |-> [status |-> NoStatus, info |-> EmptyInfo]]

\* every answer the bounds allow
FullEnv ==
    [listings |-> SUBSET Files, stats |-> StatResults, exists |-> BOOLEAN,
     times |-> TimePoints, outcomes |-> {"ok", "failed"}, hangs |-> {}]

\* no process is kept beside the running one
TwinIdle ==
    [forked |-> FALSE, mon |-> MonInit(DiskInit), disk |-> DiskInit,
     lost |-> <<>>, clean |-> FALSE, settled |-> FALSE]

Init ==
    /\ clock = 0
    /\ env = FullEnv
    /\ disk = DiskInit
    /\ mon = MonInit(DiskInit)
    /\ hist = HistInit
    /\ eng = EngIdle
    /\ twin = TwinIdle

\* ------------------------------------------------------- the worker pool

Running(m) == {i \in 1..Len(m.future_to_key) : m.future_to_key[i].st = "running"}

\* a worker thread that became free takes the task queued first
WorkerStart ==
    \E i \in 1..Len(mon.future_to_key) :
        /\ mon.future_to_key[i].st = "queued"
        /\ \A j \in 1..(i - 1) : mon.future_to_key[j].st # "queued"
        /\ Cardinality(Running(mon)) < max_workers
        /\ mon' = [mon EXCEPT !.future_to_key[i].st = "running"]
        /\ UNCHANGED <<clock, disk, env, hist, eng, twin>>

\* a faulty variant of WorkerFinish: the worker thread writes the outcome
\* into the record itself
WorkerFinishFolds ==
    \E i \in 1..Len(mon.future_to_key), r \in env.outcomes :
        /\ mon.future_to_key[i].st = "running"
        /\ mon.future_to_key[i].file \notin env.hangs
        /\ mon' = [mon EXCEPT
                      !.future_to_key[i].st = r,
                      !.state = [@ EXCEPT ![mon.future_to_key[i].key].last_status =
                                     IF r = "ok" THEN "complete" ELSE "file failed"]]
        /\ UNCHANGED <<clock, disk, env, hist, eng, twin>>

\* data_extraction returns (ok) or raises (failed)
WorkerFinish ==
    \E i \in 1..Len(mon.future_to_key), r \in env.outcomes :
        /\ mon.future_to_key[i].st = "running"
        /\ mon.future_to_key[i].file \notin env.hangs
        /\ mon' = [mon EXCEPT !.future_to_key[i].st = r]
        /\ UNCHANGED <<clock, disk, env, hist, eng, twin>>


\* --------------------------------------------------------- main monitor loop

\* a faulty variant of IsExtracting: the "not" of "not fut.done()" is lost
IsExtractingDone(future_to_key, key) ==
    \E i \in 1..Len(future_to_key) :
        future_to_key[i].key = key /\ Done(future_to_key[i])

\* is_extracting: any(k == key and not fut.done() for fut, k in future_to_key.items())
IsExtracting(future_to_key, key) ==
    \E i \in 1..Len(future_to_key) :
        future_to_key[i].key = key /\ ~Done(future_to_key[i])

\* upsert of rec into df: the row of (job, stage) is replaced, or appended
Upsert(df, rec) ==
    LET id == <<rec.job, rec.stage>>
        row == [modified_date |-> rec.modified_date, modified_time |-> rec.modified_time,
                size |-> rec.size, status |-> rec.status, rerun |-> rec.rerun]
    IN  [r \in (DOMAIN df) \cup {id} |-> IF r = id THEN row ELSE df[r]]

\* lines 223-228: now_unix, files and the per-iteration locals
StartBody(m, now_unix, files) ==
    [m EXCEPT !.pc = IF files = <<>> THEN "pass2" ELSE "pass1",
              !.now_unix = now_unix,
              !.files = files,
              !.dirty_csv = FALSE,
              !.new_keys = 0,
              !.seen_keys = {}]

\* lines 223-228: top of the loop, the clock is read and the directory listed
TickStart ==
    /\ mon.pc = "start"
    /\ \E t \in env.times : t >= clock /\ clock' = t
    /\ \E listed \in env.listings : \E files \in Perms(listed) :
          mon' = StartBody(mon, clock', files)
    /\ hist' = HistInit
    /\ UNCHANGED <<disk, env, eng, twin>>

\* lines 231-286: the body of pass 1 for one file, given its os.stat result
Pass1Body(m, file_path, st, exists) ==
    LET rec0 == get_data_record(file_path, st)
        job == rec0.job
        stage == rec0.stage
        key == make_key(job, stage)
        info0 == StateGet(m.state, key)
        is_extracting == IsExtracting(m.future_to_key, key)
        prev_status == info0.last_status
        prev_mtime == info0.last_seen_mtime
        prev_rerun == info0.rerun
        r == get_status_and_update_info(job, stage, rec0, info0, m.now_unix,
                                        is_extracting, exists)
        submit == r.status = "await extraction" /\ ~is_extracting
        status == IF submit THEN "extracting" ELSE r.status
        info == [r.info EXCEPT !.last_status = status]
        rerun == info.rerun
        rec == [job |-> job, stage |-> stage,
                modified_date |-> rec0.modified_date, modified_time |-> rec0.modified_time,
                size |-> rec0.size, status |-> status, rerun |-> rerun]
        modified_unix == to_unix(rec.modified_date, rec.modified_time)
        new_key_flag == prev_mtime = None
        modified_changed == prev_mtime # None /\ modified_unix # prev_mtime
        status_changed == prev_status # status
        rerun_changed == prev_rerun # rerun
    IN  [m EXCEPT
            !.pc = IF Len(m.files) = 1 THEN "pass2" ELSE "pass1",
            !.files = Tail(m.files),
            !.seen_keys = @ \cup {key},
            !.new_keys = IF key \notin DOMAIN m.state THEN @ + 1 ELSE @,
            !.future_to_key =
                IF submit
                THEN Append(@, [key |-> key, file |-> file_path,
                                st |-> IF Cardinality(Running(m)) < max_workers
                                       THEN "running" ELSE "queued"])
                ELSE @,
            !.state = StatePut(m.state, key, info),
            !.dirty_csv =
                @ \/ new_key_flag \/ modified_changed \/ status_changed \/ rerun_changed,
            !.df = Upsert(m.df, rec)]

\* what a snapshot row shows of a record
Shown(info) == <<info.last_status, info.rerun, info.last_seen_mtime>>

\* some identity is new in state2, or shows another status, rerun or modified time
RecordChanged(state1, state2) ==
    \E k \in DOMAIN state2 :
        k \notin DOMAIN state1 \/ Shown(state1[k]) # Shown(state2[k])

\* pass 1 takes the next listed file
ProcessFile ==
    /\ mon.pc = "pass1"
    /\ \E st \in env.stats, exists \in env.exists :
          LET m2 == Pass1Body(mon, Head(mon.files), st, exists)
          IN  /\ \A k \in DOMAIN m2.state : m2.state[k].rerun <= MaxRerun
              /\ mon' = m2
    /\ hist' = [hist EXCEPT !.changed = @ \/ RecordChanged(mon.state, mon'.state)]
    /\ UNCHANGED <<clock, disk, env, eng, twin>>

\* the listed file is gone when os.stat runs: FileNotFoundError ends the process
StatFails ==
    /\ mon.pc = "pass1"
    /\ \E listed \in env.listings : Head(mon.files) \notin listed
    /\ mon' = [mon EXCEPT !.pc = "crashed"]
    /\ UNCHANGED <<clock, disk, env, hist, eng, twin>>

\* a faulty variant of FoldInfo: a successful extraction starts rerun over
FoldInfoResets(info, outcome) ==
    IF outcome = "ok"
    THEN [info EXCEPT !.last_status = "complete",
                      !.last_extracted_mtime = info.last_seen_mtime,
                      !.rerun = 0]
    ELSE [info EXCEPT !.last_status = "file failed"]

\* a faulty variant of FoldInfo: a failed extraction forgets the last extraction
FoldInfoFailedForgets(info, outcome) ==
    IF outcome = "ok"
    THEN [info EXCEPT !.last_status = "complete",
                      !.last_extracted_mtime = info.last_seen_mtime]
    ELSE [info EXCEPT !.last_status = "file failed",
                      !.last_extracted_mtime = None]

\* a faulty variant of FoldInfo: a successful extraction is not remembered
FoldInfoNoAdvance(info, outcome) ==
    IF outcome = "ok"
    THEN [info EXCEPT !.last_status = "complete"]
    ELSE [info EXCEPT !.last_status = "file failed"]

\* lines 293-300: fut.result() returned (ok) or raised (failed)
FoldInfo(info, outcome) ==
    IF outcome = "ok"
    THEN [info EXCEPT !.last_status = "complete",
                      !.last_extracted_mtime = info.last_seen_mtime]
    ELSE [info EXCEPT !.last_status = "file failed"]

\* lines 290-309: the finished futures are popped and folded, in dict order
RECURSIVE DrainFold(_, _)
DrainFold(m, finished) ==
    IF finished = <<>> THEN m
    ELSE LET fut == Head(finished)
             key == fut.key
             info0 == StateGet(m.state, key)
             info == FoldInfo(info0, fut.st)
             new_status == IF fut.st = "ok" THEN "complete" ELSE "file failed"
             js == split_key(key)
             id == <<js.job, js.stage>>
             hit == id \in DOMAIN m.df
         IN  DrainFold([m EXCEPT
                           !.state = StatePut(m.state, key, info),
                           !.df = IF hit THEN [@ EXCEPT ![id].status = new_status] ELSE @,
                           !.dirty_csv = @ \/ hit],
                       Tail(finished))

\* a faulty variant of DrainBody: the result of every future is waited for
DrainBodyWaits(m) ==
    LET all == [i \in 1..Len(m.future_to_key) |->
                   [m.future_to_key[i] EXCEPT !.st = IF Done(m.future_to_key[i])
                                                     THEN @ ELSE "ok"]]
    IN  [DrainFold([m EXCEPT !.future_to_key = <<>>], all) EXCEPT !.pc = "export"]

\* a faulty variant of DrainBody: pass 2 goes on to save_state, past the export
DrainBodySkipsExport(m) ==
    LET finished == SelectSeq(m.future_to_key, Done)
        rest == SelectSeq(m.future_to_key, LAMBDA fut : ~Done(fut))
    IN  [DrainFold([m EXCEPT !.future_to_key = rest], finished) EXCEPT !.pc = "save"]

\* lines 289-309: pass 2 as a whole
DrainBody(m) ==
    LET finished == SelectSeq(m.future_to_key, Done)
        rest == SelectSeq(m.future_to_key, LAMBDA fut : ~Done(fut))
    IN  [DrainFold([m EXCEPT !.future_to_key = rest], finished) EXCEPT !.pc = "export"]

\* pass 2: handle the finished extractions without blocking
Drain ==
    /\ mon.pc = "pass2"
    /\ mon' = DrainBody(mon)
    /\ hist' = [hist EXCEPT !.drained =
                    \E i \in 1..Len(mon.future_to_key) :
                        /\ Done(mon.future_to_key[i])
                        /\ LET js == split_key(mon.future_to_key[i].key)
                           IN  <<js.job, js.stage>> \in DOMAIN mon.df]
    /\ UNCHANGED <<clock, disk, env, eng, twin>>


\* the order of DataFrame.sort_values on strings: tokens by their first character
Alphabet == <<"::", "a", "b", "log", "s", "x">>
TokRank(t) == CHOOSE i \in 1..Len(Alphabet) : Alphabet[i] = t

RECURSIVE StrLess(_, _)
StrLess(x, y) ==
    IF y = <<>> THEN FALSE
    ELSE IF x = <<>> THEN TRUE
    ELSE IF TokRank(Head(x)) # TokRank(Head(y)) THEN TokRank(Head(x)) < TokRank(Head(y))
    ELSE StrLess(Tail(x), Tail(y))

\* the sort key of a row: job, stage, modified_date, modified_time
RowLess(df, a, b) ==
    IF a[1] # b[1] THEN StrLess(a[1], b[1])
    ELSE IF a[2] # b[2] THEN StrLess(a[2], b[2])
    ELSE IF df[a].modified_date # df[b].modified_date
         THEN df[a].modified_date < df[b].modified_date
    ELSE df[a].modified_time < df[b].modified_time

CsvRow(df, id) ==
    [job |-> id[1], stage |-> id[2],
     modified_date |-> df[id].modified_date, modified_time |-> df[id].modified_time,
     size |-> df[id].size, status |-> df[id].status, rerun |-> df[id].rerun]

RECURSIVE SortedRows(_, _)
SortedRows(df, ids) ==
    IF ids = {} THEN <<>>
    ELSE LET first == CHOOSE a \in ids : \A b \in ids \ {a} : RowLess(df, a, b)
         IN  <<CsvRow(df, first)>> \o SortedRows(df, ids \ {first})

\* write_sorted_csv: the states the disk goes through (nothing for an empty
\* df): tmp opened and partly written, tmp written, tmp renamed over csv_path
write_sorted_csv(d, df) ==
    IF DOMAIN df = {} THEN <<d>>
    ELSE LET rows == SortedRows(df, DOMAIN df)
         IN  <<d,
               [d EXCEPT !.csv_tmp = PartFile(rows)],
               [d EXCEPT !.csv_tmp = WholeFile(rows)],
               [d EXCEPT !.csv_tmp = NoFile, !.csv_path = WholeFile(rows)]>>

\* a faulty variant of save_state: the mapping is written over state_path itself
save_state_in_place(d, state) ==
    <<d,
      [d EXCEPT !.state_path = PartFile(state)],
      [d EXCEPT !.state_path = WholeFile(state)]>>

\* save_state: the states the disk goes through: tmp opened and partly
\* written, tmp written and closed, tmp renamed over state_path
save_state(d, state) ==
    <<d,
      [d EXCEPT !.state_tmp = PartFile(state)],
      [d EXCEPT !.state_tmp = WholeFile(state)],
      [d EXCEPT !.state_tmp = NoFile, !.state_path = WholeFile(state)]>>

Last(seq) == seq[Len(seq)]

\* a faulty variant of ExportWrites: dirty_csv is not looked at
ExportWritesAlways(m) == DOMAIN m.df # {}

\* line 312: if dirty_csv and not df.empty
ExportWrites(m) == m.dirty_csv /\ DOMAIN m.df # {}

\* lines 311-313: write CSV once per loop if something changed
Export ==
    /\ mon.pc = "export"
    /\ disk' = IF ExportWrites(mon) THEN Last(write_sorted_csv(disk, mon.df)) ELSE disk
    /\ mon' = [mon EXCEPT !.pc = "save"]
    /\ hist' = [hist EXCEPT !.exported = ExportWrites(mon)]
    /\ UNCHANGED <<clock, env, eng, twin>>

\* lines 316-322: the log line, then the state is persisted
Save ==
    /\ mon.pc = "save"
    /\ disk' = Last(save_state(disk, mon.state))
    /\ mon' = [mon EXCEPT !.pc = "sleep"]
    /\ UNCHANGED <<clock, env, hist, eng, twin>>

\* line 323: time.sleep(poll_seconds)
Sleep ==
    /\ mon.pc = "sleep"
    /\ mon' = [mon EXCEPT !.pc = "start"]
    /\ UNCHANGED <<clock, disk, env, hist, eng, twin>>

Next ==
    \/ WorkerFinish
    \/ TickStart \/ ProcessFile \/ StatFails \/ Drain \/ Export \/ Save \/ Sleep

Spec == Init /\ [][Next]_vars

\* two identities, one of them with two files; the files are modified on
\* whole seconds, the DB has a record of every stage, extractions end well
KeysEnv ==
    [listings |-> SUBSET {F1, F2, F3},
     stats |-> {st \in StatResults : st.st_size = 1 /\ st.st_mtime \in {0, Res}},
     exists |-> {TRUE}, times |-> {0}, outcomes |-> {"ok"}, hangs |-> {}]

InitKeys ==
    /\ clock = 0
    /\ env = KeysEnv
    /\ disk = DiskInit
    /\ mon = MonInit(DiskInit)
    /\ hist = HistInit
    /\ eng = EngIdle
    /\ twin = TwinIdle

SpecKeys == InitKeys /\ [][Next]_vars

\* five identities, one more than the pool has workers; the extractions of
\* four of the files never end; no file is modified or removed
PoolEnv ==
    [listings |-> {{F1, F3, F4, F5, F6}},
     stats |-> {[st_mtime |-> 0, st_size |-> 1]},
     exists |-> {TRUE}, times |-> {0}, outcomes |-> {"ok", "failed"},
     hangs |-> {F1, F3, F4, F5}]

InitPool ==
    /\ clock = 0
    /\ env = PoolEnv
    /\ disk = DiskInit
    /\ mon = MonInit(DiskInit)
    /\ hist = HistInit
    /\ eng = EngIdle
    /\ twin = TwinIdle

\* the files stay where they are: os.stat does not fail
NextPool ==
    \/ WorkerStart \/ WorkerFinish
    \/ TickStart \/ ProcessFile \/ Drain \/ Export \/ Save \/ Sleep

SpecPool == InitPool /\ [][NextPool]_vars

\* two identities; the extraction of F1 never ends, that of F3 may fail
HangEnv ==
    [listings |-> {{F1, F3}},
     stats |-> {[st_mtime |-> 0, st_size |-> 1]},
     exists |-> {TRUE}, times |-> {0}, outcomes |-> {"ok", "failed"},
     hangs |-> {F1}]

InitHang ==
    /\ clock = 0
    /\ env = HangEnv
    /\ disk = DiskInit
    /\ mon = MonInit(DiskInit)
    /\ hist = HistInit
    /\ eng = EngIdle
    /\ twin = TwinIdle

NextHang ==
    \/ WorkerFinish
    \/ TickStart \/ ProcessFile \/ Drain \/ Export \/ Save \/ Sleep

\* the loop of monitor_forever keeps running; nothing is asked of the workers
TickSteps == TickStart \/ ProcessFile \/ Drain \/ Export \/ Save \/ Sleep
SpecHang == InitHang /\ [][NextHang]_vars /\ WF_vars(TickSteps)

\* one file that is listed in every iteration and has a DB record; what
\* os.stat answers is the file as it is now (env.stats holds that one
\* answer); the file is modified now and then, and no more once its
\* modified time has reached MaxMtime; every extraction ends well
FairEnv ==
    [listings |-> {{F1}},
     stats |-> {[st_mtime |-> 0, st_size |-> 1]},
     exists |-> {TRUE}, times |-> {0}, outcomes |-> {"ok"}, hangs |-> {}]

\* the file is written to: a later st_mtime
FileModified ==
    /\ \E st \in env.stats, t \in 0..MaxMtime :
          /\ t > st.st_mtime
          /\ env' = [env EXCEPT !.stats = {[st EXCEPT !.st_mtime = t]}]
    /\ UNCHANGED <<clock, mon, disk, hist, eng, twin>>

InitFair ==
    /\ clock = 0
    /\ env = FairEnv
    /\ disk = DiskInit
    /\ mon = MonInit(DiskInit)
    /\ hist = HistInit
    /\ eng = EngIdle
    /\ twin = TwinIdle

NextFair == FileModified \/ WorkerFinish \/ TickSteps

\* the loop of monitor_forever keeps running, and so do the worker threads
SpecFair ==
    InitFair /\ [][NextFair]_vars /\ WF_vars(TickSteps) /\ WF_vars(WorkerFinish)

\* two files that are listed in every iteration, one of them with the key
\* separator in its job; the files are modified on whole seconds, the DB
\* has a record of every stage
SepEnv ==
    [listings |-> {{F1, F7}},
     stats |-> {st \in StatResults : st.st_size = 1 /\ st.st_mtime \in {0, Res}},
     exists |-> {TRUE}, times |-> {0}, outcomes |-> {"ok", "failed"}, hangs |-> {}]

InitSep ==
    /\ clock = 0
    /\ env = SepEnv
    /\ disk = DiskInit
    /\ mon = MonInit(DiskInit)
    /\ hist = HistInit
    /\ eng = EngIdle
    /\ twin = TwinIdle

NextSep == WorkerFinish \/ TickSteps

SpecSep == InitSep /\ [][NextSep]_vars

\* the running tasks that never end
HungRunning(m) == {i \in Running(m) : m.future_to_key[i].file \in env.hangs}

\* future i can never finish: it runs and never ends, or it is queued while
\* every worker runs a task that never ends
Stuck(m, i) ==
    \/ m.future_to_key[i].st = "running" /\ m.future_to_key[i].file \in env.hangs
    \/ m.future_to_key[i].st = "queued" /\ Cardinality(HungRunning(m)) = max_workers

\* ------------------------------------------------------- kill and restart

Alive(m) == m.pc \notin {"killed", "crashed"}

\* what a kill may leave on the disk: any state the step under way goes through
KillLeaves(m, d) ==
    IF m.pc = "save"
    THEN {save_state(d, m.state)[i] : i \in DOMAIN save_state(d, m.state)}
    ELSE IF m.pc = "export" /\ ExportWrites(m)
         THEN {write_sorted_csv(d, m.df)[i] : i \in DOMAIN write_sorted_csv(d, m.df)}
    ELSE {d}

\* the process is killed: its locals and its pool are gone
Kill ==
    /\ Alive(mon)
    /\ disk' \in KillLeaves(mon, disk)
    /\ mon' = [MonInit(DiskInit) EXCEPT !.pc = "killed"]
    /\ hist' = HistInit
    /\ UNCHANGED <<clock, env, eng, twin>>

\* the process is started again without --reset
Restart ==
    /\ ~Alive(mon)
    /\ mon' = MonInit(disk)
    /\ hist' = HistInit
    /\ UNCHANGED <<clock, disk, env, eng, twin>>

NextCrash == Next \/ Kill \/ Restart

\* one file, of one size
CrashEnv ==
    [listings |-> SUBSET {F1}, stats |-> {st \in StatResults : st.st_size = 1},
     exists |-> {TRUE}, times |-> {0}, outcomes |-> {"ok", "failed"}, hangs |-> {}]

InitCrash ==
    /\ clock = 0
    /\ env = CrashEnv
    /\ disk = DiskInit
    /\ mon = MonInit(DiskInit)
    /\ hist = HistInit
    /\ eng = EngIdle
    /\ twin = TwinIdle

SpecCrash == InitCrash /\ [][NextCrash]_vars

\* ------------------------- a restarted process beside one never stopped

\* the stat results that show the listed files as the records last saw them
AsRecorded(state, listed, stats) ==
    {st \in stats : \A f \in listed :
        /\ ModifiedUnix(st) = StateGet(state, KeyOf(f)).last_seen_mtime
        /\ st.st_size = StateGet(state, KeyOf(f)).last_seen_size}

\* The process is killed in time.sleep, after save_state, and started again
\* without --reset.  From here on the files stay as the last iteration saw
\* them and every extraction that ends, ends well.  twin is the process as
\* it would go on had it not been killed, with its pool and its disk;
\* twin.lost is the pool the kill took away.
KillRestart ==
    /\ ~twin.forked
    /\ mon.pc = "sleep"
    /\ mon.seen_keys # {} /\ mon.seen_keys = DOMAIN mon.state
    /\ LET listed == {f \in UNION env.listings : KeyOf(f) \in mon.seen_keys}
       IN  env' = [env EXCEPT !.listings = {listed},
                              !.stats = AsRecorded(mon.state, listed, env.stats),
                              !.outcomes = {"ok"}]
    /\ twin' = [forked |-> TRUE, mon |-> mon, disk |-> disk,
                lost |-> mon.future_to_key, clean |-> FALSE, settled |-> FALSE]
    /\ mon' = MonInit(disk)
    /\ hist' = HistInit
    /\ UNCHANGED <<clock, disk, eng>>

\* the steps of the process never stopped: those of the monitor, on twin
TwinWorkerFinish ==
    /\ twin.forked
    /\ \E i \in 1..Len(twin.mon.future_to_key), r \in env.outcomes :
          /\ twin.mon.future_to_key[i].st = "running"
          /\ twin.mon.future_to_key[i].file \notin env.hangs
          /\ twin' = [twin EXCEPT !.mon.future_to_key[i].st = r]
    /\ UNCHANGED <<clock, mon, disk, env, hist, eng>>

\* twin.clean: the iteration began with no future left from earlier ones
TwinTickStart ==
    /\ twin.forked
    /\ twin.mon.pc = "start"
    /\ \E t \in env.times : t >= clock /\ clock' = t
    /\ \E listed \in env.listings : \E files \in Perms(listed) :
          twin' = [twin EXCEPT !.mon = StartBody(@, clock', files),
                               !.clean = twin.mon.future_to_key = <<>>]
    /\ UNCHANGED <<mon, disk, env, hist, eng>>

TwinProcessFile ==
    /\ twin.forked
    /\ twin.mon.pc = "pass1"
    /\ \E st \in env.stats, exists \in env.exists :
          LET m2 == Pass1Body(twin.mon, Head(twin.mon.files), st, exists)
          IN  /\ \A k \in DOMAIN m2.state : m2.state[k].rerun <= MaxRerun
              /\ twin' = [twin EXCEPT !.mon = m2]
    /\ UNCHANGED <<clock, mon, disk, env, hist, eng>>

TwinDrain ==
    /\ twin.forked
    /\ twin.mon.pc = "pass2"
    /\ twin' = [twin EXCEPT !.mon = DrainBody(@)]
    /\ UNCHANGED <<clock, mon, disk, env, hist, eng>>

TwinExport ==
    /\ twin.forked
    /\ twin.mon.pc = "export"
    /\ twin' = [twin EXCEPT
                  !.disk = IF ExportWrites(twin.mon)
                           THEN Last(write_sorted_csv(@, twin.mon.df)) ELSE @,
                  !.mon.pc = "save"]
    /\ UNCHANGED <<clock, mon, disk, env, hist, eng>>

\* twin.settled: an iteration that began with no future has ended with none
TwinSave ==
    /\ twin.forked
    /\ twin.mon.pc = "save"
    /\ twin' = [twin EXCEPT
                  !.disk = Last(save_state(@, twin.mon.state)),
                  !.mon.pc = "sleep",
                  !.settled = @ \/ (twin.clean /\ twin.mon.future_to_key = <<>>)]
    /\ UNCHANGED <<clock, mon, disk, env, hist, eng>>

TwinSleep ==
    /\ twin.forked
    /\ twin.mon.pc = "sleep"
    /\ twin' = [twin EXCEPT !.mon.pc = "start"]
    /\ UNCHANGED <<clock, mon, disk, env, hist, eng>>

NextResume ==
    \/ Next
    \/ KillRestart
    \/ TwinWorkerFinish \/ TwinTickStart \/ TwinProcessFile \/ TwinDrain
    \/ TwinExport \/ TwinSave \/ TwinSleep

\* one file; db_exists answers True, as the stub of line 66 does
ResumeEnv ==
    [listings |-> SUBSET {F1}, stats |-> {st \in StatResults : st.st_size = 1},
     exists |-> {TRUE}, times |-> {0}, outcomes |-> {"ok", "failed"}, hangs |-> {}]

InitResume ==
    /\ clock = 0
    /\ env = ResumeEnv
    /\ disk = DiskInit
    /\ mon = MonInit(DiskInit)
    /\ hist = HistInit
    /\ eng = EngIdle
    /\ twin = TwinIdle

SpecResume == InitResume /\ [][NextResume]_vars


\* ------------------------------------ the status engine called on its own

\* the whole seconds a modified time can show
Seconds == {to_unix(split_ts(t).date, split_ts(t).time) : t \in 0..MaxMtime}

\* the times of the calls: ages of STALL - 1, STALL and STALL + 1 occur
EngTimes == {0, 1, 2, STALL + 1}

\* the records monitor_forever keeps: the empty one, or one a pass 1 step
\* wrote (the caller never records "await extraction", and records
\* "complete" only with last_seen_mtime <= last_extracted_mtime)
EngInfos ==
    {EmptyInfo} \cup
    {i \in [last_seen_mtime : Seconds, last_seen_size : Sizes,
            last_change_time : EngTimes,
            last_extracted_mtime : {None} \cup Seconds,
            last_status : Statuses \ {"await extraction"},
            rerun : 0..MaxRerun] :
        i.last_status = "complete" =>
            i.last_extracted_mtime # None /\ i.last_seen_mtime <= i.last_extracted_mtime}

EngArgs ==
    {a \in [phase : {"args"}, file : {F1}, st : StatResults, info : EngInfos,
            now_unix : EngTimes, is_extracting : BOOLEAN, exists : BOOLEAN,
            r1 : {EngIdle.r1}, r2 : {EngIdle.r2}] :
        a.info.last_change_time <= a.now_unix}

\* status, info = get_status_and_update_info(job, stage, rec, info, now_unix, is_extracting)
EngCall(a, info) ==
    LET rec == get_data_record(a.file, a.st)
    IN  get_status_and_update_info(rec.job, rec.stage, rec, info, a.now_unix,
                                   a.is_extracting, a.exists)

\* the first call
EngineCall ==
    /\ eng.phase = "args"
    /\ eng' = [eng EXCEPT !.phase = "once", !.r1 = EngCall(eng, eng.info)]
    /\ UNCHANGED <<clock, mon, disk, env, hist, twin>>

\* the same call again, on the record as the first call left it
EngineCallAgain ==
    /\ eng.phase = "once"
    /\ eng' = [eng EXCEPT !.phase = "twice", !.r2 = EngCall(eng, eng.r1.info)]
    /\ UNCHANGED <<clock, mon, disk, env, hist, twin>>

InitEngine ==
    /\ clock = 0
    /\ env = FullEnv
    /\ disk = DiskInit
    /\ mon = MonInit(DiskInit)
    /\ hist = HistInit
    /\ eng \in EngArgs
    /\ twin = TwinIdle

NextEngine == EngineCall \/ EngineCallAgain

SpecEngine == InitEngine /\ [][NextEngine]_vars


\* ================================================================ properties

\* the identity of F1 and F2
K1 == make_key(<<"a">>, <<"s">>)

\* the futures of a key that are not done
Unfinished(m, key) ==
    {i \in 1..Len(m.future_to_key) :
        m.future_to_key[i].key = key /\ m.future_to_key[i].st \notin {"ok", "failed"}}

\* C1: at most one in-flight extraction per identity: no key ever has two
\* unfinished futures, and no pass 1 step, whatever os.stat and db_exists
\* answer, submits for a key that has an unfinished future.
AtMostOneInFlight ==
    /\ \A i \in 1..Len(mon.future_to_key) :
          Cardinality(Unfinished(mon, mon.future_to_key[i].key)) <= 1
    /\ mon.pc = "pass1" =>
          \A st \in env.stats, exists \in env.exists :
              LET m2 == Pass1Body(mon, Head(mon.files), st, exists)
              IN  Len(m2.future_to_key) > Len(mon.future_to_key)
                      => Unfinished(mon, KeyOf(Head(mon.files))) = {}

\* C1 witness: two identities have an extraction running, and the next file
\* of pass 1 is a second file of one of them.
TwoFilesOneKeyInFlight ==
    /\ mon.pc = "pass1" /\ Len(mon.files) = 1
    /\ Len(mon.future_to_key) = 2
    /\ mon.future_to_key[1].st = "running" /\ mon.future_to_key[2].st = "running"
    /\ mon.future_to_key[1].key # mon.future_to_key[2].key
    /\ \E i \in 1..2 : /\ mon.future_to_key[i].key = KeyOf(Head(mon.files))
                       /\ mon.future_to_key[i].file # Head(mon.files)

\* C2: in-flight priority: a call with is_extracting true returns "extracting"
\* and leaves rerun as it was, whatever the other arguments are.
InFlightPriority ==
    (eng.phase # "args" /\ eng.is_extracting) =>
        eng.r1.status = "extracting" /\ eng.r1.info.rerun = eng.info.rerun

\* C2 witness: a call with is_extracting true on a complete record whose file
\* is newer than its last extraction, with no DB record.
InFlightCallMade ==
    /\ eng.phase = "once" /\ eng.is_extracting /\ ~eng.exists
    /\ eng.info.last_status = "complete"
    /\ ModifiedUnix(eng.st) > eng.info.last_extracted_mtime

\* C3: rerun monotonicity: no step of the monitor (pass 1, pass 2, a worker
\* finishing) removes a record or lowers its rerun.
RerunMonotone ==
    [][\A k \in DOMAIN mon.state :
          k \in DOMAIN mon'.state /\ mon'.state[k].rerun >= mon.state[k].rerun]_vars

\* C3 witness: a record that was rerun and then drained as complete again.
RerunThenComplete ==
    /\ K1 \in DOMAIN mon.state
    /\ mon.state[K1].rerun >= 1
    /\ mon.state[K1].last_status = "complete"
    /\ mon.pc = "export"

\* C4: rerun trigger: in pass 1, for a file whose identity is not in flight,
\* has a DB record, is "complete" and was extracted at T, observing T + 1
\* makes the engine answer "await extraction" and adds exactly 1 to rerun;
\* observing the modified time the record already holds never changes rerun.
RerunTrigger ==
    mon.pc = "pass1" =>
        LET file == Head(mon.files)
            key == KeyOf(file)
            info == StateGet(mon.state, key)
        IN  /\ \A st \in env.stats :
                  (/\ Unfinished(mon, key) = {}
                   /\ info.last_status = "complete"
                   /\ info.last_extracted_mtime # None
                   /\ ModifiedUnix(st) = info.last_extracted_mtime + 1)
                  => LET rec == get_data_record(file, st)
                         r == get_status_and_update_info(rec.job, rec.stage, rec, info,
                                                         mon.now_unix, FALSE, TRUE)
                     IN  /\ r.status = "await extraction"
                         /\ r.info.rerun = info.rerun + 1
                         /\ Pass1Body(mon, file, st, TRUE).state[key].rerun = info.rerun + 1
            /\ \A st \in env.stats, exists \in env.exists :
                  ModifiedUnix(st) = info.last_seen_mtime
                  => Pass1Body(mon, file, st, exists).state[key].rerun = info.rerun

\* C4 witness: pass 1 reaches a file of a record that was rerun once, was
\* extracted again and is complete at the modified time it last saw.
RerunTriggered ==
    /\ mon.pc = "pass1"
    /\ K1 \in DOMAIN mon.state
    /\ mon.state[K1].rerun = 1
    /\ mon.state[K1].last_status = "complete"
    /\ mon.state[K1].last_extracted_mtime = mon.state[K1].last_seen_mtime
    /\ mon.state[K1].last_extracted_mtime = 1


\* C5, as stated: the first call for an identity (empty record, nothing in
\* flight) with no DB record returns "await extraction" and rerun 0.
NewIdentityAwaits ==
    (eng.phase # "args" /\ eng.info = EmptyInfo /\ ~eng.is_extracting /\ ~eng.exists)
        => eng.r1.status = "await extraction" /\ eng.r1.info.rerun = 0

\* C5, amended: the first call for an identity (empty record, nothing in
\* flight) leaves rerun at 0 and returns "file running" when there is no DB
\* record, "await extraction" when there is one.
NewIdentityStatus ==
    (eng.phase # "args" /\ eng.info = EmptyInfo /\ ~eng.is_extracting)
        => /\ eng.r1.info.rerun = 0
           /\ eng.r1.status = IF eng.exists THEN "await extraction" ELSE "file running"

\* C5 witness: the first call for an identity with no DB record, made well
\* after the epoch.
NewIdentityNoResult ==
    /\ eng.phase = "once" /\ eng.info = EmptyInfo
    /\ ~eng.is_extracting /\ ~eng.exists
    /\ eng.now_unix > STALL

\* C6: stall classification: not in flight, no DB record, observed modified
\* time and size equal to the recorded ones: the status is "file running"
\* iff now - last_change_time <= 900 s, "file failed" otherwise (failed at
\* 901 s, running at 899 s).
StallClassification ==
    (/\ eng.phase # "args"
     /\ ~eng.is_extracting /\ ~eng.exists
     /\ eng.info.last_seen_mtime # None
     /\ ModifiedUnix(eng.st) = eng.info.last_seen_mtime
     /\ eng.st.st_size = eng.info.last_seen_size)
    => LET age == eng.now_unix - eng.info.last_change_time
       IN  /\ eng.r1.status = IF age <= 900 THEN "file running" ELSE "file failed"
           /\ age = 901 => eng.r1.status = "file failed"
           /\ age = 899 => eng.r1.status = "file running"

\* C6 witness: a call on an unchanged file whose last change is exactly 900 s old.
StallAtBound ==
    /\ eng.phase = "once"
    /\ ~eng.is_extracting /\ ~eng.exists
    /\ eng.info.last_seen_mtime # None
    /\ ModifiedUnix(eng.st) = eng.info.last_seen_mtime
    /\ eng.st.st_size = eng.info.last_seen_size
    /\ eng.now_unix - eng.info.last_change_time = 900
    /\ eng.r1.status = "file running"

\* C7, as stated: the second of two calls with the same arguments, on the
\* record as the first call left it, returns the same status and leaves
\* rerun as the first call left it.
EngineIdempotent ==
    eng.phase = "twice" =>
        eng.r2.status = eng.r1.status /\ eng.r2.info.rerun = eng.r1.info.rerun


\* C8: crash resumption: the process is killed after save_state, in
\* time.sleep, and restarted without --reset; the files stay as the last
\* iteration saw them, the DB keeps its records and the extractions that end
\* after the kill succeed.  Once the restarted process has ended an iteration
\* with nothing in flight, and the process never stopped has ended one that
\* began and ended with nothing in flight, both hold the same identities,
\* each with the same status and the same rerun, whatever was in flight or
\* finished but not yet folded at the kill.
Settled(m) == m.pc = "sleep" /\ m.future_to_key = <<>> /\ m.seen_keys # {}
ResumedAgrees ==
    (twin.forked /\ Settled(mon) /\ Settled(twin.mon) /\ twin.settled)
        => /\ DOMAIN mon.state = DOMAIN twin.mon.state
           /\ \A k \in DOMAIN mon.state :
                 /\ mon.state[k].last_status = twin.mon.state[k].last_status
                 /\ mon.state[k].rerun = twin.mon.state[k].rerun

\* C8 witness: both processes have settled after a kill that took away an
\* extraction finished but not yet folded, of an identity that had been rerun.
ResumedAfterLoss ==
    /\ twin.forked /\ Settled(mon) /\ Settled(twin.mon) /\ twin.settled
    /\ \E i \in 1..Len(twin.lost) : twin.lost[i].st = "ok"
    /\ mon.state[K1].rerun = 1
    /\ mon.state[K1].last_status = "complete"

\* C9, as stated: an iteration calls write_sorted_csv only if some record ends
\* the iteration new, or with a status, rerun or modified time other than the
\* one saved at the end of the iteration before (state_path still holds that
\* mapping when the iteration reaches save_state), drain or no drain.
ExportOnlyOnNetChange ==
    (mon.pc = "save" /\ hist.exported) => RecordChanged(load_state(disk), mon.state)

\* C9, amended: an iteration calls write_sorted_csv only if a pass 1 step
\* recorded a new identity or a status, rerun or modified time other than the
\* one the record held just before that step, or pass 2 folded a finished
\* future whose identity has a row in df; and an iteration that folded such
\* a future always calls it, whether or not any record ends up different.
ExportGating ==
    /\ hist.exported => (hist.changed \/ hist.drained)
    /\ (mon.pc \in {"save", "sleep"} /\ hist.drained) => hist.exported

\* C9 witness: the CSV was rewritten in an iteration whose pass 1 changed
\* nothing and whose records end as the iteration before left them, because
\* a finished future was folded.
ExportedOnDrainAlone ==
    /\ mon.pc = "save" /\ hist.exported
    /\ hist.drained /\ ~hist.changed
    /\ ~RecordChanged(load_state(disk), mon.state)

\* C10: atomic state save: whatever step the process is killed at, state_path
\* is absent or holds a complete mapping; only save_state changes it, and
\* only from the mapping saved before to the complete new mapping; load_state
\* then returns one of those two mappings.
AtomicSave ==
    [][/\ disk'.state_path = NoFile \/ disk'.state_path.complete
       /\ mon.pc # "save" => disk'.state_path = disk.state_path
       /\ mon.pc = "save" =>
             /\ disk'.state_path \in {disk.state_path, WholeFile(mon.state)}
             /\ load_state(disk') \in {load_state(disk), mon.state}
       /\ (~Alive(mon) /\ Alive(mon')) => mon'.state = load_state(disk)]_vars

\* C10 witness: the process was killed while save_state was writing the
\* temporary file, state_path holding the mapping of an earlier save.
KilledMidSave ==
    /\ mon.pc = "killed"
    /\ disk.state_tmp.exists /\ ~disk.state_tmp.complete
    /\ disk.state_path.exists
    /\ disk.state_tmp.data # disk.state_path.data


\* C11: non-blocking drain: pass 2 can always be taken, whatever the
\* futures are; it takes away the futures that are done and leaves the others
\* as they are, in their order; and with tasks that never end the loop still
\* reaches save_state and time.sleep again and again.
NonBlockingDrain ==
    /\ [](mon.pc = "pass2" => ENABLED Drain)
    /\ [][(mon.pc = "pass2" /\ mon'.pc = "export") =>
            mon'.future_to_key = SelectSeq(mon.future_to_key, LAMBDA fut : ~Done(fut))]_vars
    /\ []<>(mon.pc = "save")
    /\ []<>(mon.pc = "sleep")

\* C11 witness: an iteration has reached time.sleep with the extraction of
\* one identity folded while that of another runs and never ends.
TickEndsWhileTasksHang ==
    /\ mon.pc = "sleep"
    /\ Cardinality(HungRunning(mon)) = 1
    /\ mon.state[KeyOf(F1)].last_status = "extracting"
    /\ mon.state[KeyOf(F3)].last_status = "complete"

\* C12, as stated: the futures that can never finish belong to at most
\* max_workers identities, and no future of a file whose extraction would
\* end well is among them.
BlastRadiusBounded ==
    /\ Cardinality({mon.future_to_key[i].key :
                       i \in {j \in 1..Len(mon.future_to_key) : Stuck(mon, j)}}) <= max_workers
    /\ \A i \in 1..Len(mon.future_to_key) :
          mon.future_to_key[i].file \notin env.hangs => ~Stuck(mon, i)

\* C13, as stated: recovery from "file failed": a record that is "file
\* failed" for want of a DB record (never extracted, nothing in flight) and
\* whose file is found with another modified time or size gets "await
\* extraction" from that call.
FailedReawaits ==
    (/\ eng.phase # "args"
     /\ eng.info.last_status = "file failed"
     /\ eng.info.last_extracted_mtime = None
     /\ ~eng.is_extracting
     /\ \/ ModifiedUnix(eng.st) # eng.info.last_seen_mtime
        \/ eng.st.st_size # eng.info.last_seen_size)
    => eng.r1.status = "await extraction"

\* C13, amended: such a call restarts the record's inactivity clock
\* (last_change_time = now) and so leaves "file failed": it returns "file
\* running" while there is still no DB record, and "await extraction" only
\* when there is one.
FailedRecovers ==
    (/\ eng.phase # "args"
     /\ eng.info.last_status = "file failed"
     /\ eng.info.last_extracted_mtime = None
     /\ ~eng.is_extracting
     /\ \/ ModifiedUnix(eng.st) # eng.info.last_seen_mtime
        \/ eng.st.st_size # eng.info.last_seen_size)
    => /\ eng.r1.info.last_change_time = eng.now_unix
       /\ eng.r1.status = IF eng.exists THEN "await extraction" ELSE "file running"

\* C13 witness: a stalled "file failed" record whose file has grown (same
\* modified time, another size), still without a DB record: "file running".
FailedFileGrew ==
    /\ eng.phase = "once"
    /\ eng.info.last_status = "file failed"
    /\ eng.info.last_extracted_mtime = None
    /\ ~eng.is_extracting /\ ~eng.exists
    /\ ModifiedUnix(eng.st) = eng.info.last_seen_mtime
    /\ eng.st.st_size # eng.info.last_seen_size
    /\ eng.now_unix - eng.info.last_change_time > STALL
    /\ eng.r1.status = "file running"

\* the monitor after the first k finished futures of pass 2 have been folded
FoldedUpTo(m, k) ==
    LET finished == SelectSeq(m.future_to_key, Done)
        rest == SelectSeq(m.future_to_key, LAMBDA fut : ~Done(fut))
    IN  DrainFold([m EXCEPT !.future_to_key = rest], SubSeq(finished, 1, k))

\* C14: folding of finished extractions: in pass 2 every finished future
\* is folded once, in turn: a successful one sets the record's last_status
\* to "complete" and last_extracted_mtime to its last_seen_mtime, a failed
\* one sets last_status to "file failed" and leaves last_extracted_mtime and
\* rerun as they were; the pass leaves exactly the unfinished futures in
\* future_to_key and the records as the last fold left them.
FoldFinished ==
    /\ [](mon.pc = "pass2" =>
            \A k \in 1..Len(SelectSeq(mon.future_to_key, Done)) :
                LET fut == SelectSeq(mon.future_to_key, Done)[k]
                    b == StateGet(FoldedUpTo(mon, k - 1).state, fut.key)
                    a == FoldedUpTo(mon, k).state[fut.key]
                IN  IF fut.st = "ok"
                    THEN /\ a.last_status = "complete"
                         /\ a.last_extracted_mtime = b.last_seen_mtime
                         /\ a.last_extracted_mtime = a.last_seen_mtime
                    ELSE /\ a.last_status = "file failed"
                         /\ a.last_extracted_mtime = b.last_extracted_mtime
                         /\ a.rerun = b.rerun)
    /\ [][(mon.pc = "pass2" /\ mon'.pc = "export") =>
            /\ mon'.future_to_key = SelectSeq(mon.future_to_key, LAMBDA fut : ~Done(fut))
            /\ mon'.state =
                  FoldedUpTo(mon, Len(SelectSeq(mon.future_to_key, Done))).state]_vars

\* C14 witness: pass 2 has just folded the failed extraction of a file that
\* was extracted before and modified since.
FailedFoldKeepsExtracted ==
    /\ mon.pc = "export" /\ hist.drained
    /\ mon.future_to_key = <<>>
    /\ K1 \in DOMAIN mon.state
    /\ mon.state[K1].last_status = "file failed"
    /\ mon.state[K1].last_extracted_mtime # None
    /\ mon.state[K1].last_extracted_mtime < mon.state[K1].last_seen_mtime
    /\ mon.state[K1].rerun = 1

\* the steps of one loop iteration, in the order the code takes them
TickOrder ==
    {<<"start", "pass1">>, <<"start", "pass2">>, <<"pass1", "pass2">>,
     <<"pass1", "crashed">>, <<"pass2", "export">>, <<"export", "save">>,
     <<"save", "sleep">>, <<"sleep", "start">>}

\* a step that submits an extraction
Submits == Len(mon'.future_to_key) > Len(mon.future_to_key)

\* C15, as stated: within-tick ordering: a step that submits an extraction
\* leaves no listed file of the iteration unevaluated (all evaluations come
\* before any submission); submissions are made before pass 2; pass 2 comes
\* before the export and the save.
EvaluateAllThenSubmit ==
    /\ [][Submits => mon.pc = "pass1" /\ Len(mon.files) = 1]_vars
    /\ [][mon'.pc # mon.pc => <<mon.pc, mon'.pc>> \in TickOrder]_vars

\* C15, amended: the files are taken one after another; each file's
\* evaluation comes before its own submission, which is made in that file's
\* pass 1 step, before the next file is evaluated; pass 1 as a whole comes
\* before pass 2, pass 2 before the export, the export before the save:
\* futures are submitted only in pass 1 and removed only by pass 2, the
\* records change only in pass 1 and pass 2, the CSV is written only by the
\* export step and the state file only by the save step.
WithinTickOrder ==
    /\ [][Submits =>
            /\ mon.pc = "pass1"
            /\ Len(mon'.future_to_key) = Len(mon.future_to_key) + 1
            /\ Last(mon'.future_to_key).file = Head(mon.files)
            /\ Last(mon'.future_to_key).key = KeyOf(Head(mon.files))
            /\ mon'.state[KeyOf(Head(mon.files))].last_status = "extracting"
            /\ mon'.files = Tail(mon.files)]_vars
    /\ [][mon'.pc # mon.pc => <<mon.pc, mon'.pc>> \in TickOrder]_vars
    /\ [][Len(mon'.future_to_key) < Len(mon.future_to_key) =>
            mon.pc = "pass2" /\ mon'.pc = "export"]_vars
    /\ [][mon'.state # mon.state => mon.pc \in {"pass1", "pass2"}]_vars
    /\ [][disk'.csv_path # disk.csv_path => mon.pc = "export" /\ mon'.pc = "save"]_vars
    /\ [][disk'.state_path # disk.state_path => mon.pc = "save" /\ mon'.pc = "sleep"]_vars

\* C15 witness: in the first iteration the extraction of a.s.log has been
\* submitted while b.s.log is still to be evaluated.
SubmittedBeforeLastEvaluation ==
    /\ mon.pc = "pass1"
    /\ mon.files = <<F3>>
    /\ disk.state_path = NoFile
    /\ DOMAIN mon.state = {K1}
    /\ mon.state[K1].last_status = "extracting"
    /\ Len(mon.future_to_key) = 1
    /\ mon.future_to_key[1].key = K1

\* C16: single writer: a step of a worker thread (a task starts, ends well
\* or fails) leaves the records, the snapshot table and the files on disk
\* as they are, and changes nothing but the state of one future, its own:
\* queued to running, or running to done; every change of a record, of the
\* table or of the files is a step of the loop of monitor_forever.
SingleWriter ==
    /\ [][(WorkerStart \/ WorkerFinish) =>
            /\ mon'.state = mon.state /\ mon'.df = mon.df /\ disk' = disk
            /\ \E i \in 1..Len(mon.future_to_key) :
                  /\ mon' = [mon EXCEPT !.future_to_key[i].st = mon'.future_to_key[i].st]
                  /\ <<mon.future_to_key[i].st, mon'.future_to_key[i].st>> \in
                        {<<"queued", "running">>, <<"running", "ok">>,
                         <<"running", "failed">>}]_vars
    /\ [][(mon'.state # mon.state \/ mon'.df # mon.df \/ disk' # disk) =>
            mon.pc \in {"pass1", "pass2", "export", "save"} /\
            (mon'.pc # mon.pc \/ mon'.files # mon.files)]_vars

\* C16 witness: four extractions that never end hold the four worker
\* threads, one of them taken from the queue; the extraction of x.s.log has
\* failed and its record still says "extracting".
WorkerFailedRecordUntouched ==
    /\ Cardinality(Running(mon)) = max_workers
    /\ \E i \in 1..Len(mon.future_to_key) :
          /\ mon.future_to_key[i].file = F6
          /\ mon.future_to_key[i].st = "failed"
    /\ mon.state[KeyOf(F6)].last_status = "extracting"
    /\ \A k \in DOMAIN mon.state : mon.state[k].last_extracted_mtime = None

\* C17: eventual completion: a file listed in every iteration, with a DB
\* record, modified no more from some point on, all of whose extractions
\* end well: when the loop and the workers keep running, from some point on
\* the record is "complete" for good and nothing is in flight or submitted.
EventuallyComplete ==
    <>[](/\ K1 \in DOMAIN mon.state
         /\ mon.state[K1].last_status = "complete"
         /\ mon.future_to_key = <<>>)

\* C17 witness: the file was modified after its first extraction, was
\* extracted again, and is complete at its last modified time.
CompleteAfterRerun ==
    /\ mon.pc = "sleep"
    /\ mon.future_to_key = <<>>
    /\ env.stats = {[st_mtime |-> MaxMtime, st_size |-> 1]}
    /\ mon.state[K1].last_status = "complete"
    /\ mon.state[K1].rerun = 1
    /\ mon.state[K1].last_extracted_mtime = ModifiedUnix([st_mtime |-> MaxMtime, st_size |-> 1])

\* the futures of an identity in future_to_key
FuturesOf(m, key) == {i \in 1..Len(m.future_to_key) : m.future_to_key[i].key = key}

\* the file is as it was when it was first listed
NeverModified == env.stats = FairEnv.stats

\* C18, as stated: no redundant extraction: while the file is as it was
\* first seen (with a DB record, extractions ending well) one extraction is
\* submitted and no more: future_to_key never holds two futures of the
\* identity, and holds none once an extraction has been folded; a future
\* that is done and not yet folded does not lead to a second one.
OneExtraction ==
    NeverModified =>
        /\ Cardinality(FuturesOf(mon, K1)) <= 1
        /\ (K1 \in DOMAIN mon.state /\ mon.state[K1].last_extracted_mtime # None)
              => FuturesOf(mon, K1) = {}

\* C19, as stated: no lost modification: the file is modified for the last
\* time while the one extraction submitted so far, for the file as first
\* seen, is in flight; then in the end a new extraction is submitted: a
\* second future, or the rerun of a complete record.
ModificationExtracted ==
    (/\ env.stats = {[st_mtime |-> MaxMtime, st_size |-> 1]}
     /\ Len(mon.future_to_key) = 1
     /\ ~Done(mon.future_to_key[1])
     /\ K1 \in DOMAIN mon.state
     /\ mon.state[K1].last_seen_mtime = 0
     /\ mon.state[K1].last_extracted_mtime = None
     /\ mon.state[K1].rerun = 0)
    ~> (Len(mon.future_to_key) >= 2 \/ (K1 \in DOMAIN mon.state /\ mon.state[K1].rerun >= 1))

\* the rows of the snapshot table that belong to an identity
RowsOf(m, key) == {id \in DOMAIN m.df : make_key(id[1], id[2]) = key}

\* C20, as stated: snapshot and records agree when save_state runs: started
\* without a state file, every identity recorded has exactly one row, every
\* row belongs to a recorded identity, and the row shows the last_status and
\* the rerun of the record, also for an identity folded by pass 2 of this
\* iteration.
SnapshotAgrees ==
    mon.pc = "save" =>
        /\ \A key \in DOMAIN mon.state : Cardinality(RowsOf(mon, key)) = 1
        /\ \A id \in DOMAIN mon.df :
              /\ make_key(id[1], id[2]) \in DOMAIN mon.state
              /\ mon.df[id].status = mon.state[make_key(id[1], id[2])].last_status
              /\ mon.df[id].rerun = mon.state[make_key(id[1], id[2])].rerun

====
